---- MODULE Spec2Model ----
(***************************************************************************)
(* Captain Cargo delivery tracking: the circuit-breaker protected, retrying *)
(* upstream client (services/sanity_client.py), the TTL cache              *)
(* (services/cache.py), the tracking-id normaliser (utils/normalization.py),*)
(* the response builder (services/response_builder.py) and the webhook     *)
(* dispatcher process_webhook (server.py).                                 *)
(*                                                                         *)
(* Time is in whole seconds.  Callers of the client suspend only at the     *)
(* upstream request and at the retry back-off sleep; every other piece of   *)
(* code runs to completion as one step.                                     *)
(***************************************************************************)
EXTENDS Integers, Sequences, FiniteSets, TLC

\* ------------------------------------------------------------------ bounds
MaxRequests == 6     \* upstream requests sent in one behaviour
MaxTicks == 2        \* clock advances in one behaviour

\* ------------------------------------------------------- program constants
_failure_threshold == 5    \* SanityClient._failure_threshold
_reset_timeout == 30       \* SanityClient._reset_timeout (seconds)
stop_after_attempt == 3    \* tenacity stop=stop_after_attempt(3)

\* Callers of the client that may be inside fetch_delivery at once.
Procs == {1, 2}

CLOSED == "closed"
OPEN == "open"
HALF_OPEN == "half_open"
CircuitState == {CLOSED, OPEN, HALF_OPEN}

VARIABLES
  _circuit_state,     \* SanityClient._circuit_state
  _failure_count,     \* SanityClient._failure_count
  _last_failure_time, \* SanityClient._last_failure_time
  now,                \* time.time()
  upstream,           \* per caller: health of the upstream at the 1st, 2nd, 3rd request of the current fetch
  pc,                 \* per caller: position inside fetch_delivery
  attempt_number,     \* per caller: tenacity's attempt number of the current fetch
  transport_calls,    \* per caller: requests.get invocations of the current fetch
  failures_recorded,  \* per caller: _record_failure calls made by the current fetch
  fetch_result,       \* per caller: what the current fetch returned
  entry_state,        \* per caller: the circuit state the fetch call read on entry
  tracking_number,    \* per caller: the argument of the current fetch_delivery call
  request,            \* per caller: the arguments of the last requests.get of the current fetch
  requests_sent,      \* upstream requests sent so far by direct callers of the client
  failed_run,         \* consecutive failed fetch calls since the breaker was last CLOSED with count 0
  _cache,             \* DeliveryCache._cache
  _timestamps,        \* DeliveryCache._timestamps
  _ttls,              \* DeliveryCache._ttls
  key_order,          \* insertion order of the keys of the three dicts
  _hits,              \* DeliveryCache._hits
  _misses,            \* DeliveryCache._misses
  max_size,           \* DeliveryCache.max_size
  default_ttl_seconds,\* DeliveryCache.default_ttl_seconds
  dispatch_pc,        \* process_webhook: idle, loop, fetching, done or raised
  call,               \* process_webhook: the loop variable, the entry of tool_calls last taken up
  tool_outputs,       \* process_webhook: tool_outputs
  current_call,       \* process_webhook: tool_call_id and normalized_id of the call being fetched
  response,           \* process_webhook: the returned dict
  provenance,         \* per output: what the cache and the upstream gave for that call
  stored,             \* every value cache.set was given by the dispatcher, with the record it came from
  taken,              \* ids of the get_delivery_status calls the loop has taken up in this batch, in order
  body,               \* webhook_handler: the request body last posted
  status_code,        \* webhook_handler: the status code of the answer to that request
  iterated,           \* webhook_handler: the list process_webhook iterated for that request
  raw_input,          \* normalize_tracking_id: the argument of the last call
  first_result,       \* normalize_tracking_id: what that call returned or raised
  second_result,      \* normalize_tracking_id: what it made of the value it had returned
  last_call,          \* DeliveryCache: the last method call made on the cache and its result
  gets,               \* DeliveryCache: get calls made since construction or the last clear
  inserted,           \* DeliveryCache: keys set since the cache was last empty, while only new keys were set
  received            \* the upstream response the dispatcher's fetch took last

client_vars == <<_circuit_state, _failure_count, _last_failure_time>>
fetch_vars == <<pc, attempt_number, transport_calls, failures_recorded, fetch_result, entry_state,
               tracking_number, request>>
cache_vars == <<_cache, _timestamps, _ttls, key_order, _hits, _misses, max_size, default_ttl_seconds>>
handler_vars == <<body, status_code, iterated>>
normalizer_vars == <<raw_input, first_result, second_result>>
cache_call_vars == <<last_call, gets, inserted>>
row_vars == <<received>>
\* the cache together with what only its direct callers and the request handler write
server_vars == <<cache_vars, handler_vars, normalizer_vars, cache_call_vars, row_vars>>
dispatch_vars == <<dispatch_pc, call, tool_outputs, current_call, response, provenance, stored, taken>>
vars == <<client_vars, now, upstream, fetch_vars, failed_run, requests_sent, server_vars, dispatch_vars>>

\* --------------------------------------------------------------- the clock
\* The clock starts late enough that the constructor's _last_failure_time of
\* 0.0 lies more than a reset timeout in the past, as it does for time.time().
StartTime == _reset_timeout + 1
TickSizes == {1, _reset_timeout}
TicksTaken == ((now - StartTime) \div _reset_timeout) + ((now - StartTime) % _reset_timeout)

\* The backoff between two attempts lasts at most 0.4 s (wait_exponential),
\* so only the short advance may happen while a caller is backing off.
Tick(d) ==
  /\ TicksTaken < MaxTicks
  /\ (d > 1 => \A p \in Procs : pc[p] # "backoff")
  /\ now' = now + d
  /\ UNCHANGED <<client_vars, upstream, fetch_vars, failed_run, requests_sent, server_vars, dispatch_vars>>

\* ------------------------------------------------------- upstream documents
K1 == <<"T", "R", "K", "1", "2", "3">>
K2 == <<"A", "B", "C", "4", "5", "6">>
\* The normalized identifiers callers ask for.
Ids == {K1, K2}
\* Python's None
None == [t |-> "none"]

\* models/delivery.py: DeliveryStatus
DeliveryStatus == {"processing", "in_transit", "delivered", "delayed"}

\* Documents the store may hold: two shipments in valid states, and one
\* document whose status is outside the enum.
Row(k, st) ==
  [trackingNumber |-> k, status |-> st, customerName |-> "Ann",
   customerPhone |-> "555", estimatedDelivery |-> None, issueMessage |-> None]
GoodRows == {Row(K1, "in_transit"), Row(K2, "delivered")}
BadRows == {Row(K1, "lost")}

\* What requests.get(...) / raise_for_status() / response.json() come to:
\* a transport or HTTP error, or a body whose "result" is a list of rows.
TransportError == [kind |-> "error"]
Rows(result) == [kind |-> "rows", result |-> result]
\* A healthy upstream answers with zero rows or a well-formed document; an
\* unhealthy one raises or serves a document that cannot be constructed.
ResponsesOf(health) ==
  IF health = "ok"
  THEN {Rows(<<>>)} \cup {Rows(<<r>>) : r \in GoodRows}
  ELSE {TransportError} \cup {Rows(<<r>>) : r \in BadRows}

\* Variant of the construction that takes any status; C30 fails with it.
DeliveryConstructs_any_status(row) ==
  /\ Len(row.trackingNumber) >= 6
  /\ Len(row.trackingNumber) <= 32

\* models/delivery.py: Delivery(...) as called by fetch_delivery; construction
\* raises when the status is not in the enum or the tracking number's length
\* is outside 6..32.
DeliveryConstructs(row) ==
  /\ row.status \in DeliveryStatus
  /\ Len(row.trackingNumber) >= 6
  /\ Len(row.trackingNumber) <= 32
Delivery(row) ==
  [tracking_number |-> row.trackingNumber, status |-> row.status,
   customer_name |-> row.customerName, customer_phone |-> row.customerPhone,
   estimated_delivery |-> row.estimatedDelivery, issue_message |-> row.issueMessage]

\* ------------------------------------------------------ the circuit breaker
Breaker == [state |-> _circuit_state, count |-> _failure_count, last |-> _last_failure_time]

\* Variant of the circuit_state property that does not wait for the reset
\* timeout; the amended C35 fails with it.
circuit_state_eager(b, t) ==
  IF b.state = OPEN THEN [b EXCEPT !.state = HALF_OPEN] ELSE b

\* Variant of the circuit_state property that never leaves OPEN by itself;
\* C34 fails with it.
circuit_state_stays_open(b, t) == b

\* SanityClient.circuit_state: the property; reading it moves OPEN to
\* HALF_OPEN once the reset timeout has passed.
circuit_state(b, t) ==
  IF b.state = OPEN /\ t - b.last > _reset_timeout
  THEN [b EXCEPT !.state = HALF_OPEN]
  ELSE b

\* Variant of _record_failure that keeps the old last-failure time; C7 fails with it.
_record_failure_keeps_time(b, t) ==
  [state |-> IF b.count + 1 >= _failure_threshold THEN OPEN ELSE b.state,
   count |-> b.count + 1,
   last |-> b.last]

\* SanityClient._record_failure
\* Variant of _record_failure that writes the count it read when the
\* breaker was last CLOSED with count 0, plus one; C29 fails with it.
_record_failure_stale(b, t) ==
  [state |-> b.state, count |-> 1, last |-> t]

_record_failure(b, t) ==
  [state |-> IF b.count + 1 >= _failure_threshold THEN OPEN ELSE b.state,
   count |-> b.count + 1,
   last |-> t]

\* Variant of _record_success that clears the counter only; C6 fails with it.
_record_success_count_only(b) == [b EXCEPT !.count = 0]

\* SanityClient._record_success
_record_success(b) == [b EXCEPT !.count = 0, !.state = CLOSED]

SetBreaker(b) ==
  /\ _circuit_state' = b.state
  /\ _failure_count' = b.count
  /\ _last_failure_time' = b.last

\* ------------------------------------------------------------ fetch_delivery
NoResult == [kind |-> "none"]
NotFound == [kind |-> "not_found"]
Found(d) == [kind |-> "delivery", delivery |-> d]

\* How the upstream will treat the successive requests of one fetch.
Healths == {"ok", "fail"}
\* A fetch ends at the first request that succeeds, so what would follow a
\* success is never seen: scripts are taken up to that point.
Scripts == {s \in [1..stop_after_attempt -> Healths] :
              \A i, j \in 1..stop_after_attempt : (i < j /\ s[i] = "ok") => s[j] = "ok"}
AllFail == [i \in 1..stop_after_attempt |-> "fail"]
MaxRun == _failure_threshold + 1
Bump(n) == IF n < MaxRun THEN n + 1 ELSE n

\* Variant of AttemptRaised in which tenacity never gives up; C11 fails with it.
AttemptRaised_forever(p, n) ==
  /\ pc' = [pc EXCEPT ![p] = "backoff"]
  /\ UNCHANGED failed_run

\* tenacity after an attempt raised: sleep and retry, or give up once
\* stop_after_attempt attempts were made.
AttemptRaised(p, n) ==
  IF n >= stop_after_attempt
  THEN /\ pc' = [pc EXCEPT ![p] = "raised"]
       /\ failed_run' = Bump(failed_run)
  ELSE /\ pc' = [pc EXCEPT ![p] = "backoff"]
       /\ UNCHANGED failed_run

\* The GROQ text of fetch_delivery: it matches trackingNumber against the
\* parameter $tracking_number and holds no identifier itself.
query ==
  [text |-> "*[_type == 'delivery' && trackingNumber == $tracking_number]{trackingNumber,status,customerName,customerPhone,estimatedDelivery,issueMessage}",
   matches_on |-> [kind |-> "parameter", name |-> "$tracking_number"]]

\* The arguments of requests.get in fetch_delivery(id). The local dict
\* params = {"tracking_number": id} is built and not passed on.
requests_get(id) ==
  LET params == [tracking_number |-> id]
  IN [url |-> "base_url", params |-> [query |-> query], timeout |-> 5]

\* The body of fetch_delivery up to requests.get, run as attempt n: the
\* breaker check, then the request is sent.
Attempt(p, n, calls, id, sent) ==
  LET b == circuit_state(Breaker, now) IN
    /\ SetBreaker(b)
    /\ attempt_number' = [attempt_number EXCEPT ![p] = n]
    /\ tracking_number' = [tracking_number EXCEPT ![p] = id]
    /\ request' = [request EXCEPT ![p] = IF b.state = OPEN THEN sent ELSE requests_get(id)]
    /\ IF b.state = OPEN
       THEN /\ AttemptRaised(p, n)
            /\ transport_calls' = [transport_calls EXCEPT ![p] = calls]
       ELSE /\ transport_calls' = [transport_calls EXCEPT ![p] = calls + 1]
            /\ pc' = [pc EXCEPT ![p] = "inflight"]
            /\ UNCHANGED failed_run

\* A caller enters fetch_delivery: tenacity runs the first attempt.
FetchStart(p, id) ==
  /\ pc[p] \in {"idle", "returned", "raised"}
  /\ Attempt(p, 1, 0, id, None)
  /\ failures_recorded' = [failures_recorded EXCEPT ![p] = 0]
  /\ fetch_result' = [fetch_result EXCEPT ![p] = NoResult]
  /\ entry_state' = [entry_state EXCEPT ![p] = circuit_state(Breaker, now).state]
  /\ \E script \in Scripts : upstream' = [upstream EXCEPT ![p] = script]
  /\ UNCHANGED now

\* tenacity's sleep is over: the next attempt.
FetchRetry(p) ==
  /\ pc[p] = "backoff"
  /\ Attempt(p, attempt_number[p] + 1, transport_calls[p], tracking_number[p], request[p])
  /\ UNCHANGED <<now, upstream, failures_recorded, fetch_result, entry_state>>

\* The body of fetch_delivery from the response on.
FetchRespondWith(p, resp) ==
  /\ IF resp.kind = "rows" /\ resp.result = <<>>
     THEN /\ SetBreaker(_record_success(Breaker))
          /\ fetch_result' = [fetch_result EXCEPT ![p] = NotFound]
          /\ pc' = [pc EXCEPT ![p] = "returned"]
          /\ failed_run' = 0
          /\ UNCHANGED failures_recorded
     ELSE IF resp.kind = "rows" /\ DeliveryConstructs(resp.result[1])
     THEN /\ SetBreaker(_record_success(Breaker))
          /\ fetch_result' = [fetch_result EXCEPT ![p] = Found(Delivery(resp.result[1]))]
          /\ pc' = [pc EXCEPT ![p] = "returned"]
          /\ failed_run' = 0
          /\ UNCHANGED failures_recorded
     ELSE /\ SetBreaker(_record_failure(Breaker, now))
          /\ failures_recorded' = [failures_recorded EXCEPT ![p] = @ + 1]
          /\ AttemptRaised(p, attempt_number[p])
          /\ UNCHANGED fetch_result
  /\ UNCHANGED <<now, upstream, attempt_number, transport_calls, entry_state, tracking_number, request>>

\* The upstream answers the request in flight.
FetchRespond(p) ==
  /\ pc[p] = "inflight"
  /\ \E resp \in ResponsesOf(upstream[p][transport_calls[p]]) : FetchRespondWith(p, resp)

\* The caller has taken what fetch_delivery returned or raised.
FetchTaken(p) ==
  /\ pc' = [pc EXCEPT ![p] = "idle"]
  /\ attempt_number' = [attempt_number EXCEPT ![p] = 0]
  /\ transport_calls' = [transport_calls EXCEPT ![p] = 0]
  /\ failures_recorded' = [failures_recorded EXCEPT ![p] = 0]
  /\ fetch_result' = [fetch_result EXCEPT ![p] = NoResult]
  /\ entry_state' = [entry_state EXCEPT ![p] = CLOSED]
  /\ upstream' = [upstream EXCEPT ![p] = AllFail]
  /\ tracking_number' = [tracking_number EXCEPT ![p] = None]
  /\ request' = [request EXCEPT ![p] = None]

\* fetch_delivery called directly on the client, outside a dispatch.
\* The requests these calls send are counted against MaxRequests.
Counted(p) ==
  /\ requests_sent' = requests_sent + (IF pc'[p] = "inflight" THEN 1 ELSE 0)
  /\ requests_sent' <= MaxRequests
StartFetch(p, id) == FetchStart(p, id) /\ Counted(p) /\ UNCHANGED <<server_vars, dispatch_vars>>
Retry(p) == FetchRetry(p) /\ Counted(p) /\ UNCHANGED <<server_vars, dispatch_vars>>
Respond(p) == FetchRespond(p) /\ UNCHANGED <<requests_sent, server_vars, dispatch_vars>>

\* SanityClient.get_dependency_status
\* SanityClient.get_dependency_status: the dict returned and the breaker
\* afterwards; the state is read through the circuit_state property.
dependency_status(b, t) ==
  LET read == circuit_state(b, t)
  IN [status |-> [circuit_breaker |-> read.state, failure_count |-> read.count],
      breaker |-> read]

get_dependency_status ==
  /\ SetBreaker(dependency_status(Breaker, now).breaker)
  /\ UNCHANGED <<now, upstream, fetch_vars, failed_run, requests_sent, server_vars, dispatch_vars>>

\* SanityClient.reset_circuit
reset_circuit ==
  /\ _failure_count' = 0
  /\ _circuit_state' = CLOSED
  /\ failed_run' = 0
  /\ UNCHANGED <<_last_failure_time, now, upstream, fetch_vars, requests_sent, server_vars, dispatch_vars>>

\* ------------------------------------------------- utils/normalization.py
\* A Python str is a sequence of one-character strings.
Lowers == <<"a", "b", "c", "d", "e", "f", "g", "h", "i", "j", "k", "l", "m",
            "n", "o", "p", "q", "r", "s", "t", "u", "v", "w", "x", "y", "z">>
Uppers == <<"A", "B", "C", "D", "E", "F", "G", "H", "I", "J", "K", "L", "M",
            "N", "O", "P", "Q", "R", "S", "T", "U", "V", "W", "X", "Y", "Z">>
Digits == <<"0", "1", "2", "3", "4", "5", "6", "7", "8", "9">>
Range(f) == {f[i] : i \in DOMAIN f}

\* the character class [A-Za-z0-9]
IsAlnum(c) == c \in Range(Lowers) \cup Range(Uppers) \cup Range(Digits)
\* str.upper() on one character
UpperChar(c) ==
  IF c \in Range(Lowers) THEN Uppers[CHOOSE i \in DOMAIN Lowers : Lowers[i] = c] ELSE c
\* Variant of re.sub that removes the first non-alphanumeric character only
\* (count=1); C22 fails with it.
re_sub_first(raw_id) ==
  IF \A i \in DOMAIN raw_id : IsAlnum(raw_id[i]) THEN raw_id
  ELSE LET first == CHOOSE i \in DOMAIN raw_id :
                      ~IsAlnum(raw_id[i]) /\ \A j \in 1..(i - 1) : IsAlnum(raw_id[j])
       IN SubSeq(raw_id, 1, first - 1) \o SubSeq(raw_id, first + 1, Len(raw_id))

\* re.sub(r"[^A-Za-z0-9]", "", raw_id)
re_sub(raw_id) == SelectSeq(raw_id, IsAlnum)

\* Variant of str.upper that leaves the text as it is; C23 fails with it.
upper_unchanged(cleaned) == cleaned

\* cleaned.upper()
upper(cleaned) == [i \in DOMAIN cleaned |-> UpperChar(cleaned[i])]

MinIdLength == 6
MaxIdLength == 32

\* Values a caller may pass as tracking_id or ttl_seconds: a str, None, or an int.
Str(chars) == [t |-> "str", chars |-> chars]
IntValue(n) == [t |-> "int", n |-> n]
\* Python truthiness of such a value
Truthy(v) ==
  CASE v.t = "str" -> v.chars # <<>>
    [] v.t = "int" -> v.n # 0
    [] OTHER -> FALSE

Message(fmt, args) == [fmt |-> fmt, args |-> args]
Returns(value) == [outcome |-> "return", value |-> value]
Raises(exc, msg) == [outcome |-> "raise", exc |-> exc, message |-> msg]

\* Variant of normalize_tracking_id without the minimum length; C13 fails with it.
normalize_tracking_id_no_minimum(raw_id) ==
  IF ~Truthy(raw_id)
  THEN Raises("ValueError", Message("Tracking ID cannot be empty", None))
  ELSE IF raw_id.t # "str"
  THEN Raises("TypeError", Message("expected string or bytes-like object", None))
  ELSE LET normalized == upper(re_sub(raw_id.chars)) IN
         IF Len(normalized) > MaxIdLength
         THEN Raises("ValueError",
                Message("Tracking ID too long after normalization: '{}' (maximum 32 characters)",
                        [normalized |-> normalized]))
         ELSE Returns(normalized)

\* normalize_tracking_id
normalize_tracking_id(raw_id) ==
  IF ~Truthy(raw_id)
  THEN Raises("ValueError", Message("Tracking ID cannot be empty", None))
  ELSE IF raw_id.t # "str"
  THEN Raises("TypeError", Message("expected string or bytes-like object", None))
  ELSE LET normalized == upper(re_sub(raw_id.chars)) IN
         IF Len(normalized) < MinIdLength
         THEN Raises("ValueError",
                Message("Tracking ID too short after normalization: '{}' (minimum 6 characters)",
                        [normalized |-> normalized]))
         ELSE IF Len(normalized) > MaxIdLength
         THEN Raises("ValueError",
                Message("Tracking ID too long after normalization: '{}' (maximum 32 characters)",
                        [normalized |-> normalized]))
         ELSE Returns(normalized)

\* ------------------------------------------------------- services/cache.py
DefaultMaxSize == 1000
CACHE_TTL == 60

Cache ==
  [data |-> _cache, timestamps |-> _timestamps, ttls |-> _ttls, order |-> key_order,
   hits |-> _hits, misses |-> _misses]

SetCache(c) ==
  /\ _cache' = c.data
  /\ _timestamps' = c.timestamps
  /\ _ttls' = c.ttls
  /\ key_order' = c.order
  /\ _hits' = c.hits
  /\ _misses' = c.misses
  /\ UNCHANGED <<max_size, default_ttl_seconds, handler_vars, normalizer_vars, cache_call_vars, row_vars>>

Without(f, key) == [k \in DOMAIN f \ {key} |-> f[k]]
With(f, key, v) == [k \in DOMAIN f \cup {key} |-> IF k = key THEN v ELSE f[k]]
\* del d[key] on the three dicts
Delete(c, key) ==
  [c EXCEPT !.data = Without(c.data, key),
            !.timestamps = Without(c.timestamps, key),
            !.ttls = Without(c.ttls, key),
            !.order = SelectSeq(c.order, LAMBDA k : k # key)]

\* Variant of DeliveryCache.get that does not count the lookup of an expired
\* entry; C28 fails with it.
cache_get_expiry_uncounted(c, key, t) ==
  IF key \notin DOMAIN c.data
  THEN [cache |-> [c EXCEPT !.misses = @ + 1], value |-> None]
  ELSE IF t - c.timestamps[key] > c.ttls[key]
  THEN [cache |-> Delete(c, key), value |-> None]
  ELSE [cache |-> [c EXCEPT !.hits = @ + 1], value |-> c.data[key]]

\* Variant of DeliveryCache.get that stamps the entry with the time of the
\* hit, as a last-access cache would; C31 fails with it.
cache_get_touch(c, key, t) ==
  IF key \notin DOMAIN c.data
  THEN [cache |-> [c EXCEPT !.misses = @ + 1], value |-> None]
  ELSE IF t - c.timestamps[key] > c.ttls[key]
  THEN [cache |-> [Delete(c, key) EXCEPT !.misses = @ + 1], value |-> None]
  ELSE [cache |-> [c EXCEPT !.hits = @ + 1, !.timestamps[key] = t], value |-> c.data[key]]

\* DeliveryCache.get: the cache afterwards and the value returned (None for None)
cache_get(c, key, t) ==
  IF key \notin DOMAIN c.data
  THEN [cache |-> [c EXCEPT !.misses = @ + 1], value |-> None]
  ELSE IF t - c.timestamps[key] > c.ttls[key]
  THEN [cache |-> [Delete(c, key) EXCEPT !.misses = @ + 1], value |-> None]
  ELSE [cache |-> [c EXCEPT !.hits = @ + 1], value |-> c.data[key]]

\* Variant of the choice of the entry to evict that takes the last key in
\* dict order; C25 fails with it.
oldest_key_last(c) == c.order[Len(c.order)]

\* min(self._timestamps.keys(), key=...): the first key, in dict order, among
\* those with the smallest timestamp
oldest_key(c) ==
  LET least(i) == \A j \in DOMAIN c.order :
                     /\ c.timestamps[c.order[i]] <= c.timestamps[c.order[j]]
                     /\ (j < i => c.timestamps[c.order[j]] > c.timestamps[c.order[i]])
  IN c.order[CHOOSE i \in DOMAIN c.order : least(i)]

\* Variant of DeliveryCache.set that stores the entry already expired; C16 fails with it.
cache_set_expired(c, key, value, ttl_seconds, size, default_ttl, t) ==
  [c EXCEPT !.data = With(c.data, key, value),
            !.timestamps = With(c.timestamps, key, t - default_ttl),
            !.ttls = With(c.ttls, key, default_ttl),
            !.order = IF key \in DOMAIN c.data THEN c.order ELSE Append(c.order, key)]

\* Variant of DeliveryCache.set that never evicts; C26 fails with it.
cache_set_no_eviction(c, key, value, ttl_seconds, size, default_ttl, t) ==
  LET ttl == IF Truthy(ttl_seconds) THEN ttl_seconds.n ELSE default_ttl
  IN [c EXCEPT !.data = With(c.data, key, value),
               !.timestamps = With(c.timestamps, key, t),
               !.ttls = With(c.ttls, key, ttl),
               !.order = IF key \in DOMAIN c.data THEN c.order ELSE Append(c.order, key)]

\* DeliveryCache.set; ttl_seconds is None or IntValue(n)
cache_set(c, key, value, ttl_seconds, size, default_ttl, t) ==
  LET c1 == IF Cardinality(DOMAIN c.data) >= size THEN Delete(c, oldest_key(c)) ELSE c
      ttl == IF Truthy(ttl_seconds) THEN ttl_seconds.n ELSE default_ttl
  IN [c1 EXCEPT !.data = With(c1.data, key, value),
                !.timestamps = With(c1.timestamps, key, t),
                !.ttls = With(c1.ttls, key, ttl),
                !.order = IF key \in DOMAIN c1.data THEN c1.order ELSE Append(c1.order, key)]

\* ------------------------------------------- services/response_builder.py
\* delivery.status.value.replace('_', ' ')
StatusText(status) == IF status = "in_transit" THEN "in transit" ELSE status

\* Variant of build_success_response that fills in a customer name of its own;
\* C1 fails with it.
build_success_response_invented(delivery) ==
  [status |-> "success",
   message |-> Message("Your package {} is {}.",
                       [tracking_number |-> delivery.tracking_number,
                        status |-> StatusText(delivery.status)]),
   delivery_details |->
     [tracking_number |-> delivery.tracking_number,
      status |-> delivery.status,
      customer_name |-> "Valued Customer",
      estimated_delivery |-> delivery.estimated_delivery,
      issue_message |-> delivery.issue_message]]

\* Variant of build_success_response that passes the customer's phone on;
\* C37 fails with it.
build_success_response_with_phone(delivery) ==
  [status |-> "success",
   message |-> Message("Your package {} is {}.",
                       [tracking_number |-> delivery.tracking_number,
                        status |-> StatusText(delivery.status)]),
   delivery_details |->
     [tracking_number |-> delivery.tracking_number,
      status |-> delivery.status,
      customer_name |-> delivery.customer_name,
      customer_phone |-> delivery.customer_phone,
      estimated_delivery |-> delivery.estimated_delivery,
      issue_message |-> delivery.issue_message]]

build_success_response(delivery) ==
  [status |-> "success",
   message |-> Message("Your package {} is {}.",
                       [tracking_number |-> delivery.tracking_number,
                        status |-> StatusText(delivery.status)]),
   delivery_details |->
     [tracking_number |-> delivery.tracking_number,
      status |-> delivery.status,
      customer_name |-> delivery.customer_name,
      estimated_delivery |-> delivery.estimated_delivery,
      issue_message |-> delivery.issue_message]]

\* Variant of build_not_found_response whose message names no id; C14 fails with it.
build_not_found_response_anonymous(tracking_id) ==
  [status |-> "not_found",
   message |-> Message("I couldn't find a delivery with that tracking number.", None),
   delivery_details |-> None]

build_not_found_response(tracking_id) ==
  [status |-> "not_found",
   message |-> Message("I couldn't find a delivery with tracking number {}. Please verify your tracking number and try again.",
                       [tracking_id |-> tracking_id]),
   delivery_details |-> None]

build_error_response(message) ==
  [status |-> "error", message |-> message, delivery_details |-> None]

\* Variant of build_cached_fallback that does not mark the source; C12 fails with it.
build_cached_fallback_unmarked(cached_data, age_seconds) ==
  [status |-> "success",
   message |-> Message("I have cached information from {} seconds ago. For the latest status, please try again later.",
                       [age_seconds |-> age_seconds]),
   delivery_details |-> cached_data,
   source |-> "upstream",
   cache_age_seconds |-> age_seconds]

build_cached_fallback(cached_data, age_seconds) ==
  [status |-> "success",
   message |-> Message("I have cached information from {} seconds ago. For the latest status, please try again later.",
                       [age_seconds |-> age_seconds]),
   delivery_details |-> cached_data,
   source |-> "cache",
   cache_age_seconds |-> age_seconds]

\* Variant of build_unavailable_fallback that keeps the "cache" source; C15 fails with it.
build_unavailable_fallback_as_cache ==
  [status |-> "unavailable",
   message |-> Message("I'm having trouble accessing the latest delivery information. Please try again in a moment.",
                       None),
   delivery_details |-> None,
   source |-> "cache"]

build_unavailable_fallback ==
  [status |-> "unavailable",
   message |-> Message("I'm having trouble accessing the latest delivery information. Please try again in a moment.",
                       None),
   delivery_details |-> None,
   source |-> "fallback"]

\* ------------------------------------------------ server.py: process_webhook
MaxBatch == 2        \* outputs of one webhook body
MaxLookups == 2      \* cache lookups in one behaviour

\* What function.arguments may hold: a dict (with or without tracking_id),
\* None, a list, or a str of JSON text, modelled by what json.loads makes of it.
Absent == [t |-> "absent"]
Dict(tracking_id) == [t |-> "dict", tracking_id |-> tracking_id]
List == [t |-> "list"]
Invalid == [t |-> "invalid"]
JsonText(parsed) == [t |-> "str", parses_to |-> parsed]

\* json.loads
json_loads(text) ==
  IF text.parses_to.t = "invalid" THEN Raises("JSONDecodeError", None)
  ELSE Returns(text.parses_to)

\* Variant of the parsing of arguments that gives None for malformed JSON;
\* C19 fails with it.
parse_arguments_or_none(arguments) ==
  IF arguments.t = "str"
  THEN IF json_loads(arguments).outcome = "raise" THEN None
       ELSE json_loads(arguments).value
  ELSE arguments

\* process_webhook, lines 220-226: arguments, parsed when it is a str
parse_arguments(arguments) ==
  IF arguments.t = "str"
  THEN IF json_loads(arguments).outcome = "raise" THEN Dict(Absent)
       ELSE json_loads(arguments).value
  ELSE arguments

\* arguments.get("tracking_id", "")
get_tracking_id(arguments) ==
  IF arguments.tracking_id.t = "absent" THEN Str(<<>>) ELSE arguments.tracking_id

ToolCall(type, id, name, arguments) ==
  [type |-> type, id |-> id, function |-> [name |-> name, arguments |-> arguments]]

GDS == "get_delivery_status"
\* An identifier one character longer than the normalizer accepts.
LongId == [i \in 1..(MaxIdLength + 1) |-> "9"]
ToolCalls ==
  { ToolCall("function", "c1", GDS, Dict(Str(<<"t", "r", "k", "-", "1", "2", "3">>))),
    ToolCall("function", "c2", GDS, JsonText(Dict(Str(<<"T", "R", "K", "1", "2", "3">>)))),
    ToolCall("function", "c3", GDS, Dict(Str(<<"a", "b", "-", "1">>))),
    ToolCall("function", "c4", GDS, JsonText(Invalid)),
    ToolCall("function", "c5", GDS, None),
    ToolCall("function", "c6", GDS, JsonText(List)),
    ToolCall("function", "c7", GDS, Dict(IntValue(123456))),
    ToolCall("function", "c8", "cancel_delivery", Dict(Str(<<"t", "r", "k", "-", "1", "2", "3">>))),
    ToolCall("function", "", GDS, Dict(Str(<<"t", "r", "k", "-", "1", "2", "3">>))),
    ToolCall("conversation", "c10", GDS, Dict(Str(<<"t", "r", "k", "-", "1", "2", "3">>))) }

\* Entries that differ in their tracking id only: one that normalizes to
\* TRK123, one too short, one with none (malformed arguments), one too long.
IdCalls ==
  {entry \in ToolCalls : entry.id \in {"c1", "c3", "c4"}}
    \cup {ToolCall("function", "c11", GDS, Dict(Str(LongId)))}

NoEntry == ToolCall("", "", "", None)
NoCall == [toolCallId |-> "", normalized_id |-> <<>>]
NoProvenance == [cached |-> None, fetched |-> NoResult]

\* Variant of the append to tool_outputs that puts the new output first; C17 fails with it.
Emit_first(tool_call_id, output, pv) ==
  /\ tool_outputs' = <<[toolCallId |-> tool_call_id, output |-> output]>> \o tool_outputs
  /\ provenance' = <<pv>> \o provenance

Emit(tool_call_id, output, pv) ==
  /\ tool_outputs' = Append(tool_outputs, [toolCallId |-> tool_call_id, output |-> output])
  /\ provenance' = Append(provenance, pv)

\* The webhook handler calls process_webhook with a new body.
ReceiveWebhook ==
  /\ dispatch_pc = "idle"
  /\ dispatch_pc' = "loop"
  /\ UNCHANGED <<call, tool_outputs, provenance, current_call, response, taken>>
  /\ UNCHANGED <<client_vars, now, upstream, fetch_vars, failed_run, requests_sent, server_vars, stored>>

\* webhook_handler answers: the JSON of the result, or a 500 when
\* process_webhook raised; the locals of the call are gone.
WebhookAnswered ==
  /\ dispatch_pc \in {"done", "raised"}
  /\ dispatch_pc' = "idle"
  /\ call' = NoEntry
  /\ tool_outputs' = <<>>
  /\ provenance' = <<>>
  /\ current_call' = NoCall
  /\ response' = None
  /\ taken' = <<>>
  /\ UNCHANGED <<client_vars, now, upstream, fetch_vars, failed_run, requests_sent, server_vars, stored>>

\* The entry passes the skips of the loop and is dispatched to get_delivery_status.
IsStatusCall(entry) ==
  entry.type = "function" /\ entry.id # "" /\ entry.function.name = GDS

\* One turn of the loop over tool_calls, up to the output of the call or to
\* the upstream request of its fetch.
NextCall(entry) ==
  /\ dispatch_pc = "loop"
  /\ Len(tool_outputs) < MaxBatch
  /\ call' = entry
  /\ taken' = IF IsStatusCall(entry) THEN Append(taken, entry.id) ELSE taken
  /\ UNCHANGED <<response, stored>>
  /\ LET skip == /\ UNCHANGED <<dispatch_pc, tool_outputs, provenance, current_call>>
                 /\ UNCHANGED <<client_vars, now, upstream, fetch_vars, failed_run, requests_sent, server_vars>>
         raise == /\ dispatch_pc' = "raised"
                  /\ UNCHANGED <<tool_outputs, provenance, current_call>>
                  /\ UNCHANGED <<client_vars, now, upstream, fetch_vars, failed_run, requests_sent, server_vars>>
         arguments == parse_arguments(entry.function.arguments)
     IN
     IF entry.type # "function" \/ entry.id = "" THEN skip
     ELSE IF entry.function.name # GDS THEN skip
     ELSE IF arguments.t # "dict" THEN raise
     ELSE LET normalized == normalize_tracking_id(get_tracking_id(arguments)) IN
       IF normalized.outcome = "raise" /\ normalized.exc = "ValueError"
       THEN /\ Emit(entry.id, build_error_response(normalized.message), NoProvenance)
            /\ UNCHANGED <<dispatch_pc, current_call>>
            /\ UNCHANGED <<client_vars, now, upstream, fetch_vars, failed_run, requests_sent, server_vars>>
       ELSE IF normalized.outcome = "raise" THEN raise
       ELSE LET normalized_id == normalized.value
                got == cache_get(Cache, normalized_id, now)
            IN /\ _hits + _misses < MaxLookups
               /\ SetCache(got.cache)
               /\ IF got.value # None
                  THEN /\ Emit(entry.id, build_cached_fallback(got.value, 0),
                               [cached |-> got.value, fetched |-> NoResult])
                       /\ UNCHANGED <<dispatch_pc, current_call>>
                       /\ UNCHANGED <<client_vars, now, upstream, fetch_vars, failed_run, requests_sent>>
                  ELSE /\ FetchStart(1, normalized_id)
                       /\ dispatch_pc' = "fetching"
                       /\ current_call' = [toolCallId |-> entry.id, normalized_id |-> normalized_id]
                       /\ UNCHANGED <<tool_outputs, provenance, requests_sent>>

DispatchRetry ==
  /\ dispatch_pc = "fetching"
  /\ FetchRetry(1)
  /\ UNCHANGED <<requests_sent, server_vars, dispatch_vars>>

DispatchRespond ==
  /\ dispatch_pc = "fetching"
  /\ FetchRespond(1)
  /\ UNCHANGED <<requests_sent, server_vars, dispatch_vars>>

\* The customerPhone a document may hold, and the responses of the upstream
\* with each document under every phone number.
Phones == {"555", "777"}
WithPhone(resp, phone) ==
  IF resp.kind = "rows" /\ resp.result # <<>>
  THEN Rows(<<[resp.result[1] EXCEPT !.customerPhone = phone]>>)
  ELSE resp
RowResponses(health) == {WithPhone(resp, phone) : resp \in ResponsesOf(health), phone \in Phones}

\* The same step, the response being kept for later inspection.
DispatchRespondRow ==
  /\ dispatch_pc = "fetching"
  /\ pc[1] = "inflight"
  /\ \E resp \in RowResponses(upstream[1][transport_calls[1]]) :
       /\ FetchRespondWith(1, resp)
       /\ received' = resp
  /\ UNCHANGED <<requests_sent, cache_vars, handler_vars, normalizer_vars, cache_call_vars,
                 dispatch_vars>>

\* fetch_delivery has returned or raised: the rest of the loop turn.
FinishCall ==
  /\ dispatch_pc = "fetching"
  /\ pc[1] \in {"returned", "raised"}
  /\ dispatch_pc' = "loop"
  /\ current_call' = NoCall
  /\ FetchTaken(1)
  /\ UNCHANGED <<client_vars, now, failed_run, requests_sent, call, response, taken>>
  /\ IF pc[1] = "raised"
     THEN /\ Emit(current_call.toolCallId, build_unavailable_fallback, NoProvenance)
          /\ UNCHANGED <<server_vars, stored>>
     ELSE IF fetch_result[1].kind = "not_found"
     THEN /\ Emit(current_call.toolCallId,
                  build_not_found_response(current_call.normalized_id),
                  [cached |-> None, fetched |-> fetch_result[1]])
          /\ UNCHANGED <<server_vars, stored>>
     ELSE LET delivery == fetch_result[1].delivery
              built == build_success_response(delivery)
          IN /\ SetCache(cache_set(Cache, current_call.normalized_id, built.delivery_details,
                                   None, max_size, default_ttl_seconds, now))
             /\ stored' = stored \cup {[value |-> built.delivery_details, from |-> delivery]}
             /\ Emit(current_call.toolCallId, built,
                     [cached |-> None, fetched |-> fetch_result[1]])

\* The clock moves while a dispatch waits for the upstream and between
\* dispatches; the turns of the loop itself take no measurable time.
DispatchTick(d) == dispatch_pc \in {"idle", "fetching"} /\ Tick(d)

\* t["output"].get("message") is truthy
HasMessage(output) == output.message.fmt # ""

\* Variant of the assistant-message loop that lists the messages last to first;
\* C18 fails with it.
assistant_messages_reversed(outputs) ==
  LET with_message == SelectSeq(outputs, LAMBDA t : HasMessage(t.output))
  IN [i \in DOMAIN with_message |->
        [role |-> "assistant",
         content |-> with_message[Len(with_message) + 1 - i].output.message]]

assistant_messages(outputs) ==
  LET with_message == SelectSeq(outputs, LAMBDA t : HasMessage(t.output))
  IN [i \in DOMAIN with_message |->
        [role |-> "assistant", content |-> with_message[i].output.message]]

\* The list is exhausted: process_webhook returns.
EndBatch ==
  /\ dispatch_pc = "loop"
  /\ dispatch_pc' = "done"
  /\ response' =
       [toolCallResults |->
          [i \in DOMAIN tool_outputs |->
             [toolCallId |-> tool_outputs[i].toolCallId, output |-> tool_outputs[i].output]],
        messages |-> assistant_messages(tool_outputs)]
  /\ UNCHANGED <<client_vars, now, upstream, fetch_vars, failed_run, requests_sent, server_vars,
                 call, tool_outputs, current_call, provenance, stored, taken>>

\* ------------------------------- models/webhook.py and server.py: webhook_handler
\* A request body is text that is not JSON, or a JSON object whose "message"
\* is absent or an object with, under each of the keys "toolCalls" and
\* "tool_calls", nothing or a list of entries.
NotJson == Invalid
VapiBody(message) == [t |-> "dict", message |-> message]
MessageOf(toolCalls, tool_calls_field) ==
  [t |-> "dict", toolCalls |-> toolCalls, tool_calls |-> tool_calls_field]

\* ToolCallFunction: name is a required str, arguments a dict that defaults to {}.
ToolCallFunction(function) ==
  /\ function.name \in STRING
  /\ function.arguments.t \in {"dict", "absent"}

\* ToolCall: id is a required str, type a str, function a ToolCallFunction.
ToolCallModel(entry) ==
  /\ entry.id \in STRING
  /\ entry.type \in STRING
  /\ ToolCallFunction(entry.function)

\* VapiMessage: the field is named tool_calls and has no alias, so the value
\* is read from the key "tool_calls" and defaults to []; other keys are ignored.
VapiMessage(message) ==
  IF message.tool_calls.t = "absent" THEN Returns(<<>>)
  ELSE IF \A i \in DOMAIN message.tool_calls.items : ToolCallModel(message.tool_calls.items[i])
  THEN Returns(message.tool_calls.items)
  ELSE Raises("ValidationError", None)

\* WebhookPayload.model_validate with validate_tool_calls
model_validate(b) ==
  IF b.message.t = "absent" THEN Raises("ValidationError", None)
  ELSE IF VapiMessage(b.message).outcome = "raise" THEN Raises("ValidationError", None)
  ELSE IF VapiMessage(b.message).value = <<>>
  THEN Raises("ValidationError", Message("At least one tool call is required", None))
  ELSE Returns(VapiMessage(b.message).value)

\* body.get("message", {}).get("toolCalls", [])
get_toolCalls(b) ==
  IF b.message.t = "absent" THEN <<>>
  ELSE IF b.message.toolCalls.t = "absent" THEN <<>>
  ELSE b.message.toolCalls.items

\* The turn of the loop of process_webhook for this entry ends in an
\* exception no except clause of process_webhook catches.
EntryRaises(entry) ==
  /\ entry.type = "function"
  /\ entry.id # ""
  /\ entry.function.name = GDS
  /\ LET arguments == parse_arguments(entry.function.arguments) IN
       IF arguments.t # "dict" THEN TRUE
       ELSE LET result == normalize_tracking_id(get_tracking_id(arguments)) IN
              result.outcome = "raise" /\ result.exc # "ValueError"

\* webhook_handler: the status code of the answer and the list process_webhook iterated
webhook_handler(b) ==
  IF b.t = "invalid" THEN [status_code |-> 400, tool_calls |-> None]
  ELSE IF model_validate(b).outcome = "raise" THEN [status_code |-> 422, tool_calls |-> None]
  ELSE IF \E i \in DOMAIN get_toolCalls(b) : EntryRaises(get_toolCalls(b)[i])
  THEN [status_code |-> 500, tool_calls |-> get_toolCalls(b)]
  ELSE [status_code |-> 200, tool_calls |-> get_toolCalls(b)]

\* Entries of the posted lists: dict arguments, JSON text arguments, null
\* arguments, and a call of another function.
BodyCalls == {entry \in ToolCalls : entry.id \in {"c1", "c2", "c5", "c8"}}
Items(items) == [t |-> "list", items |-> items]
Lists == {Absent} \cup {Items(items) : items \in UNION {[1..n -> BodyCalls] : n \in 0..MaxBatch}}
Bodies == {NotJson, VapiBody(Absent)} \cup
          {VapiBody(MessageOf(toolCalls, tool_calls_field)) : toolCalls \in Lists, tool_calls_field \in Lists}

\* One request to POST /webhook, from the body to the answer.
Post(b) ==
  /\ body' = b
  /\ status_code' = webhook_handler(b).status_code
  /\ iterated' = webhook_handler(b).tool_calls
  /\ UNCHANGED <<client_vars, now, upstream, fetch_vars, failed_run, requests_sent, dispatch_vars,
                 cache_vars, normalizer_vars, cache_call_vars, row_vars>>

\* ------------------------------------ callers of normalize_tracking_id alone
MaxExtra == 2        \* how far beyond MaxIdLength the cleaned length of an input goes

\* n alphanumeric characters of both cases and digits
Pattern == <<"t", "R", "7">>
Alnums(n) == [i \in 1..n |-> Pattern[(i % 3) + 1]]
\* the same with a "-" after every character
Dashed(n) == [i \in 1..(2 * n) |-> IF i % 2 = 1 THEN Alnums(n)[(i + 1) \div 2] ELSE "-"]
\* the same between a blank and other punctuation
Padded(n) == <<" ">> \o Alnums(n) \o <<"_", "!">>
\* What a caller passes: None, or a str of any of these shapes, already
\* normalized or not, whose cleaned length runs from 0 past MaxIdLength.
RawIds ==
  {None} \cup
  {Str(chars) : chars \in UNION {{Alnums(n), upper(Alnums(n)), Dashed(n), Padded(n)} :
                                  n \in 0..(MaxIdLength + MaxExtra)}}

\* normalize_tracking_id(raw), and normalize_tracking_id of what it returned
Normalize(raw) ==
  /\ raw_input' = raw
  /\ first_result' = normalize_tracking_id(raw)
  /\ second_result' = IF normalize_tracking_id(raw).outcome = "return"
                     THEN normalize_tracking_id(Str(normalize_tracking_id(raw).value))
                     ELSE None
  /\ UNCHANGED <<client_vars, now, upstream, fetch_vars, failed_run, requests_sent, dispatch_vars,
                 cache_vars, handler_vars, cache_call_vars, row_vars>>

\* ------------------------------------------- callers of DeliveryCache alone
MaxGets == 2         \* get calls between two clears

\* The max_size a cache is constructed with, and one key more than the
\* largest cache holds.
Capacities == {1, 2}
K3 == <<"X", "Y", "Z", "7", "8", "9">>
CacheKeys == {K1, K2, K3}
\* The values set is given: two for the first key, one for each other key.
Value(key, status) == [tracking_number |-> key, status |-> status]
ValuesOf(key) == IF key = K1 THEN {Value(key, "in_transit"), Value(key, "delivered")}
                 ELSE {Value(key, "in_transit")}
\* ttl_seconds of a set call: not given, 0, or one second
TtlArguments == {None, IntValue(0), IntValue(1)}

\* The last call: its key and result when it was a get, its arguments when
\* it was a set.
CacheCall(op, key, value, ttl_seconds) ==
  [op |-> op, key |-> key, value |-> value, ttl_seconds |-> ttl_seconds]
NoCacheCall == CacheCall("none", <<>>, None, None)

\* DeliveryCache.invalidate: dict.pop(key, None) on the three dicts
invalidate(c, key) == Delete(c, key)

Ratio(n, d) == [num |-> n, den |-> d]
\* DeliveryCache.get_stats; hit_rate is the quotient hits / total, 0.0 without lookups
get_stats(c) ==
  LET total == c.hits + c.misses
      hit_rate == IF total > 0 THEN Ratio(c.hits, total) ELSE Ratio(0, 1)
  IN [hits |-> c.hits, misses |-> c.misses, size |-> Cardinality(DOMAIN c.data),
      hit_rate |-> hit_rate]

\* Variant of DeliveryCache.clear that leaves the counters; C27 fails with it.
clear_keeps_counters(c) ==
  [data |-> <<>>, timestamps |-> <<>>, ttls |-> <<>>, order |-> <<>>,
   hits |-> c.hits, misses |-> c.misses]

\* DeliveryCache.clear
clear(c) ==
  [data |-> <<>>, timestamps |-> <<>>, ttls |-> <<>>, order |-> <<>>, hits |-> 0, misses |-> 0]

\* The six fields of the cache after a method call; its configuration stays.
Assign(c) ==
  /\ _cache' = c.data
  /\ _timestamps' = c.timestamps
  /\ _ttls' = c.ttls
  /\ key_order' = c.order
  /\ _hits' = c.hits
  /\ _misses' = c.misses
  /\ UNCHANGED <<max_size, default_ttl_seconds>>

Elsewhere ==
  UNCHANGED <<client_vars, now, upstream, fetch_vars, failed_run, requests_sent, dispatch_vars,
              handler_vars, normalizer_vars, row_vars>>

Get(key) ==
  /\ gets < MaxGets
  /\ \E got \in {cache_get(Cache, key, now)} :
       /\ Assign(got.cache)
       /\ last_call' = CacheCall("get", key, got.value, None)
       /\ inserted' = IF DOMAIN got.cache.data = DOMAIN _cache THEN inserted
                      ELSE [valid |-> FALSE, keys |-> <<>>]
  /\ gets' = gets + 1
  /\ Elsewhere

Set(key, value, ttl_seconds) ==
  /\ Assign(cache_set(Cache, key, value, ttl_seconds, max_size, default_ttl_seconds, now))
  /\ last_call' = CacheCall("set", key, value, ttl_seconds)
  /\ inserted' = IF inserted.valid /\ key \notin Range(inserted.keys)
                 THEN [inserted EXCEPT !.keys = Append(@, key)]
                 ELSE [valid |-> FALSE, keys |-> <<>>]
  /\ UNCHANGED gets
  /\ Elsewhere

Invalidate(key) ==
  /\ Assign(invalidate(Cache, key))
  /\ last_call' = CacheCall("invalidate", <<>>, None, None)
  /\ inserted' = IF key \in DOMAIN _cache THEN [valid |-> FALSE, keys |-> <<>>] ELSE inserted
  /\ UNCHANGED gets
  /\ Elsewhere

GetStats ==
  /\ last_call' = CacheCall("get_stats", <<>>, None, None)
  /\ UNCHANGED <<cache_vars, gets, inserted>>
  /\ Elsewhere

Clear ==
  /\ Assign(clear(Cache))
  /\ last_call' = CacheCall("clear", <<>>, None, None)
  /\ gets' = 0
  /\ inserted' = [valid |-> TRUE, keys |-> <<>>]
  /\ Elsewhere

\* ------------------------------------------------------------ specifications
InitClient ==
  /\ _circuit_state = CLOSED
  /\ _failure_count = 0
  /\ _last_failure_time = 0
  /\ now = StartTime
  /\ upstream = [p \in Procs |-> AllFail]
  /\ pc = [p \in Procs |-> "idle"]
  /\ attempt_number = [p \in Procs |-> 0]
  /\ transport_calls = [p \in Procs |-> 0]
  /\ failures_recorded = [p \in Procs |-> 0]
  /\ fetch_result = [p \in Procs |-> NoResult]
  /\ entry_state = [p \in Procs |-> CLOSED]
  /\ tracking_number = [p \in Procs |-> None]
  /\ request = [p \in Procs |-> None]
  /\ failed_run = 0
  /\ requests_sent = 0

\* create_app: DeliveryCache(ttl_seconds=config.CACHE_TTL), nothing dispatched yet.
InitServer ==
  /\ _cache = <<>>
  /\ _timestamps = <<>>
  /\ _ttls = <<>>
  /\ key_order = <<>>
  /\ _hits = 0
  /\ _misses = 0
  /\ max_size = DefaultMaxSize
  /\ default_ttl_seconds = CACHE_TTL
  /\ dispatch_pc = "idle"
  /\ call = NoEntry
  /\ tool_outputs = <<>>
  /\ current_call = NoCall
  /\ response = None
  /\ provenance = <<>>
  /\ stored = {}
  /\ taken = <<>>

\* Nothing posted, nothing normalized, no call made on the cache by hand.
InitCalls ==
  /\ body = None
  /\ status_code = 0
  /\ iterated = None
  /\ raw_input = None
  /\ first_result = None
  /\ second_result = None
  /\ last_call = NoCacheCall
  /\ gets = 0
  /\ inserted = [valid |-> TRUE, keys |-> <<>>]
  /\ received = None

Init == InitClient /\ InitServer /\ InitCalls

\* Several callers share one client; the breaker never looks at the id, so
\* they all ask for the same shipment.
Next ==
  \/ \E p \in Procs : StartFetch(p, K1)
  \/ \E p \in Procs : Retry(p)
  \/ \E p \in Procs : Respond(p)
  \/ \E d \in TickSizes : Tick(d)
  \/ get_dependency_status
  \/ reset_circuit

Spec == Init /\ [][Next]_vars

\* One caller at a time: a single thread of control calls fetch_delivery,
\* and reads or resets the breaker only between fetches.
Quiet == pc[1] \in {"idle", "returned", "raised"}
NextSerial ==
  \/ \E id \in Ids : StartFetch(1, id)
  \/ Retry(1)
  \/ Respond(1)
  \/ \E d \in TickSizes : Tick(d)
  \/ (Quiet /\ get_dependency_status)
  \/ (Quiet /\ reset_circuit)

SpecSerial == Init /\ [][NextSerial]_vars

\* One caller whose fetches always run on: tenacity's sleep ends after at
\* most 0.4 s and requests.get answers or times out (timeout=5.0).
Call(id) == FetchStart(1, id) /\ UNCHANGED <<requests_sent, server_vars, dispatch_vars>>
RetryCall == FetchRetry(1) /\ UNCHANGED <<requests_sent, server_vars, dispatch_vars>>
Answer == FetchRespond(1) /\ UNCHANGED <<requests_sent, server_vars, dispatch_vars>>
NextLive ==
  \/ \E id \in Ids : Call(id)
  \/ RetryCall
  \/ Answer
  \/ \E d \in TickSizes : Tick(d)
  \/ (Quiet /\ get_dependency_status)
  \/ (Quiet /\ reset_circuit)

SpecLive == Init /\ [][NextLive]_vars /\ WF_vars(RetryCall) /\ WF_vars(Answer)

\* Several callers share one client and keep calling: no budget of requests,
\* the breaker and the clock alone limit what is sent.
Enter(p) == FetchStart(p, K1) /\ UNCHANGED <<requests_sent, server_vars, dispatch_vars>>
Again(p) == FetchRetry(p) /\ UNCHANGED <<requests_sent, server_vars, dispatch_vars>>
Answered(p) == FetchRespond(p) /\ UNCHANGED <<requests_sent, server_vars, dispatch_vars>>
NextShared ==
  \/ \E p \in Procs : Enter(p)
  \/ \E p \in Procs : Again(p)
  \/ \E p \in Procs : Answered(p)
  \/ \E d \in TickSizes : Tick(d)

SpecShared == Init /\ [][NextShared]_vars

\* The webhook handler: one dispatch at a time over the shared cache and client.
NextDispatch ==
  \/ ReceiveWebhook
  \/ \E entry \in ToolCalls : NextCall(entry)
  \/ DispatchRetry
  \/ DispatchRespond
  \/ FinishCall
  \/ EndBatch
  \/ WebhookAnswered
  \/ \E d \in TickSizes : DispatchTick(d)

SpecDispatch == Init /\ [][NextDispatch]_vars

\* The webhook handler given batches whose entries are get_delivery_status
\* calls with tracking ids of every length class.
NextIds ==
  \/ ReceiveWebhook
  \/ \E entry \in IdCalls : NextCall(entry)
  \/ DispatchRetry
  \/ DispatchRespond
  \/ FinishCall
  \/ EndBatch
  \/ WebhookAnswered
  \/ \E d \in TickSizes : DispatchTick(d)

SpecIds == Init /\ [][NextIds]_vars

\* The webhook handler given calls for one shipment, the upstream answering
\* with no row, a well-formed row, a row whose status is outside the enum,
\* or an error.
RowCalls == {entry \in ToolCalls : entry.id \in {"c1", "c2"}}
NextRows ==
  \/ ReceiveWebhook
  \/ \E entry \in RowCalls : NextCall(entry)
  \/ DispatchRetry
  \/ DispatchRespondRow
  \/ FinishCall
  \/ EndBatch
  \/ WebhookAnswered
  \/ \E d \in TickSizes : DispatchTick(d)

SpecRows == Init /\ [][NextRows]_vars

\* POST /webhook with bodies of every shape.
NextHandler == \E b \in Bodies : Post(b)

SpecHandler == Init /\ [][NextHandler]_vars

\* normalize_tracking_id on raw identifiers of every shape and length.
NextNormalize == \E raw \in RawIds : Normalize(raw)

SpecNormalize == Init /\ [][NextNormalize]_vars

\* DeliveryCache(max_size, ttl_seconds) with a small capacity and its methods
\* called in any order; each call runs to its end before the next.
InitCache ==
  /\ InitClient
  /\ InitCalls
  /\ _cache = <<>>
  /\ _timestamps = <<>>
  /\ _ttls = <<>>
  /\ key_order = <<>>
  /\ _hits = 0
  /\ _misses = 0
  /\ max_size \in Capacities
  /\ default_ttl_seconds = CACHE_TTL
  /\ dispatch_pc = "idle"
  /\ call = NoEntry
  /\ tool_outputs = <<>>
  /\ current_call = NoCall
  /\ response = None
  /\ provenance = <<>>
  /\ stored = {}
  /\ taken = <<>>

NextCache ==
  \/ \E key \in CacheKeys : Get(key)
  \/ \E key \in CacheKeys, ttl_seconds \in TtlArguments :
        \E value \in ValuesOf(key) : Set(key, value, ttl_seconds)
  \/ \E key \in CacheKeys : Invalidate(key)
  \/ GetStats
  \/ Clear
  \/ Tick(1)

SpecCache == InitCache /\ [][NextCache]_vars

\* ==================================================================== claims
Completed(p) == pc[p] \in {"returned", "raised"}
\* A step in which caller p runs the breaker check of one attempt.
AttemptStep(p) ==
  /\ pc[p] # "inflight"
  /\ pc'[p] \in {"inflight", "backoff", "raised"}
  /\ (pc'[p] # pc[p] \/ attempt_number'[p] # attempt_number[p])
\* A step in which caller p's upstream request is answered.
ResponseStep(p) == pc[p] = "inflight" /\ pc'[p] # "inflight"

\* The delivery_details a verified record gives, field by field.
DetailsOf(d) ==
  [tracking_number |-> d.tracking_number, status |-> d.status,
   customer_name |-> d.customer_name, estimated_delivery |-> d.estimated_delivery,
   issue_message |-> d.issue_message]

\* C1: every output with status "success" carries delivery_details that are
\* either the details of the record the upstream returned for that very call,
\* or the value the cache lookup of that call gave, which an earlier dispatch
\* stored from a record the upstream had returned.
C1_SuccessIsVerified ==
  \A i \in DOMAIN tool_outputs :
    LET o == tool_outputs[i].output
        pv == provenance[i]
    IN o.status = "success" =>
         \/ /\ pv.fetched.kind = "delivery"
            /\ o.delivery_details = DetailsOf(pv.fetched.delivery)
         \/ /\ pv.fetched.kind = "none"
            /\ pv.cached # None
            /\ o.delivery_details = pv.cached
            /\ \E w \in stored : w.value = pv.cached /\ w.value = DetailsOf(w.from)

\* C1 witness: one batch answered a call from a fresh record and the next
\* call from the cache entry stored for it.
C1_Witness ==
  /\ Len(tool_outputs) = 2
  /\ tool_outputs[1].output.status = "success"
  /\ provenance[1].fetched.kind = "delivery"
  /\ tool_outputs[2].output.status = "success"
  /\ provenance[2].cached # None
  /\ tool_outputs[2].output.source = "cache"

\* C2: whatever the entries of the batch hold, process_webhook returns its
\* result: no exception of a single tool call leaves the dispatcher.
C2_BatchNeverRaises == dispatch_pc # "raised"

\* C3: a fetch call that raised after all 3 of its upstream attempts failed
\* has recorded exactly one failure on the breaker.
C3_OneFailurePerFetch ==
  \A p \in Procs :
    (pc[p] = "raised" /\ transport_calls[p] = stop_after_attempt) => failures_recorded[p] = 1

\* C4: counting failed fetch calls from a CLOSED breaker with count 0, the
\* breaker is still CLOSED after the 1st to 4th of them and OPEN after the 5th.
C4_OpensAtFifthFailedFetch ==
  pc[1] = "raised" =>
    /\ (failed_run \in 1..(_failure_threshold - 1) => _circuit_state = CLOSED)
    /\ (failed_run = _failure_threshold => _circuit_state # CLOSED)

\* C5: every step of a fetch call that was entered with the breaker OPEN
\* within the reset timeout ends in the circuit-open error: it sends no
\* upstream request and leaves the circuit state, the failure counter and the
\* last-failure time as they were.
C5_OpenFetchFailsFast ==
  [][\A p \in Procs :
       ((AttemptStep(p) \/ ResponseStep(p)) /\ entry_state'[p] = OPEN) =>
          /\ pc'[p] \in {"backoff", "raised"}
          /\ transport_calls'[p] = 0
          /\ UNCHANGED <<_circuit_state, _failure_count, _last_failure_time>>]_vars

\* C6: in the step in which a fetch call returns (a record, or not_found for
\* zero rows) the failure counter becomes 0 and the breaker CLOSED, whatever
\* they were; the call has recorded no failure for the answer it returns.
C6_ReturnClosesBreaker ==
  [][\A p \in Procs :
       (ResponseStep(p) /\ pc'[p] = "returned") =>
          /\ _failure_count' = 0
          /\ _circuit_state' = CLOSED
          /\ failures_recorded'[p] = failures_recorded[p]
          /\ _last_failure_time' = _last_failure_time]_vars

\* C6 witness: a fetch let through as the HALF_OPEN probe returned not_found
\* for zero rows and the breaker is CLOSED with count 0.
C6_Witness ==
  \E p \in Procs :
    /\ pc[p] = "returned"
    /\ fetch_result[p] = NotFound
    /\ entry_state[p] = HALF_OPEN
    /\ _failure_count = 0
    /\ _circuit_state = CLOSED

\* C7: an attempt that reads the breaker as HALF_OPEN is sent upstream; when
\* the answer to a request arrives with the breaker HALF_OPEN, success makes it
\* CLOSED with count 0 and failure makes it OPEN with the last-failure time
\* set to the time of that failure; and no attempt is sent while the breaker
\* is OPEN and at most the reset timeout has passed since that time.
C7_HalfOpenProbe ==
  [][\A p \in Procs :
       /\ (AttemptStep(p) /\ circuit_state(Breaker, now).state = HALF_OPEN) =>
             /\ pc'[p] = "inflight"
             /\ transport_calls'[p] >= 1
       /\ (ResponseStep(p) /\ _circuit_state = HALF_OPEN /\ pc'[p] = "returned") =>
             /\ _circuit_state' = CLOSED
             /\ _failure_count' = 0
       /\ (ResponseStep(p) /\ _circuit_state = HALF_OPEN /\ pc'[p] # "returned") =>
             /\ _circuit_state' = OPEN
             /\ _last_failure_time' = now
       /\ (AttemptStep(p) /\ _circuit_state = OPEN /\ now - _last_failure_time <= _reset_timeout) =>
             /\ pc'[p] # "inflight"
             /\ transport_calls'[p] = (IF pc[p] = "backoff" THEN transport_calls[p] ELSE 0)]_vars

\* C7 witness: the probe of a HALF_OPEN breaker has just failed; the breaker
\* is OPEN again and its last-failure time is the present.
C7_Witness ==
  \E p \in Procs :
    /\ entry_state[p] = HALF_OPEN
    /\ pc[p] = "backoff"
    /\ failures_recorded[p] = 1
    /\ _circuit_state = OPEN
    /\ _last_failure_time = now
    /\ _failure_count > _failure_threshold

\* C8: the breaker leaves OPEN only by being read more than the reset timeout
\* after the last recorded failure (to HALF_OPEN) or by reset_circuit.
C8_OpenUntilTimeoutOrReset ==
  [][(_circuit_state = OPEN /\ _circuit_state' # OPEN) =>
        \/ (_circuit_state' = HALF_OPEN /\ now - _last_failure_time > _reset_timeout)
        \/ reset_circuit]_vars

\* C9: a fetch entered with the breaker CLOSED, against an upstream that fails
\* its first two requests and answers the third, returns that answer after
\* exactly 3 transport invocations.
C9_ThirdAttemptSucceeds ==
  \A p \in Procs :
    (Completed(p) /\ entry_state[p] = CLOSED /\ upstream[p] = <<"fail", "fail", "ok">>) =>
      /\ pc[p] = "returned"
      /\ fetch_result[p].kind \in {"delivery", "not_found"}
      /\ transport_calls[p] = 3

\* C10: a fetch entered with the breaker CLOSED, against an upstream that
\* fails every request, has invoked the transport exactly 3 times when it raises.
C10_ThreeTransportCalls ==
  \A p \in Procs :
    (pc[p] = "raised" /\ entry_state[p] = CLOSED /\ upstream[p] = AllFail) =>
      transport_calls[p] = 3

\* A step in which caller p sends a request upstream.
SendStep(p) == pc[p] # "inflight" /\ pc'[p] = "inflight"

\* C11: a fetch call never makes more than 3 transport invocations; a request
\* is sent only as the first attempt of a new call or after an attempt of the
\* same call that raised, never after one that succeeded; and every fetch call
\* in progress comes to return or raise.
C11_FetchTerminates ==
  /\ [](\A p \in Procs : transport_calls[p] <= 3 /\ attempt_number[p] <= 3)
  /\ [][\A p \in Procs :
          SendStep(p) =>
            \/ (attempt_number'[p] = 1 /\ transport_calls'[p] = 1)
            \/ /\ pc[p] = "backoff"
               /\ fetch_result[p] = NoResult
               /\ transport_calls'[p] = transport_calls[p] + 1]_vars
  /\ \A p \in Procs : (pc[p] \in {"inflight", "backoff"}) ~> Completed(p)

\* C11 witness: a fetch returned from its third transport invocation.
C11_Witness ==
  /\ pc[1] = "returned"
  /\ transport_calls[1] = 3
  /\ attempt_number[1] = 3
  /\ fetch_result[1].kind = "delivery"

\* A step in which the dispatcher looks a call's normalized id up in the cache.
LookupStep == dispatch_pc = "loop" /\ _hits' + _misses' = _hits + _misses + 1
\* The normalized id of a call that got as far as the cache lookup.
NormalizedIdOf(entry) ==
  normalize_tracking_id(get_tracking_id(parse_arguments(entry.function.arguments))).value
\* The cache holds an entry for key that has not outlived its TTL.
Fresh(key) == key \in DOMAIN _cache /\ now - _timestamps[key] <= _ttls[key]

\* C12: a lookup that hits appends one output for that call with status
\* "success", source "cache" and exactly the details stored under the call's
\* normalized id, starts no fetch, sends no request and leaves the breaker as
\* it was; and a lookup of an id whose entry is within its TTL does hit.
C12_HitSkipsUpstream ==
  [][LookupStep =>
       LET key == NormalizedIdOf(call') IN
       /\ Fresh(key) => _hits' = _hits + 1
       /\ _hits' = _hits + 1 =>
            /\ Fresh(key)
            /\ Len(tool_outputs') = Len(tool_outputs) + 1
            /\ tool_outputs'[Len(tool_outputs')].toolCallId = call'.id
            /\ tool_outputs'[Len(tool_outputs')].output.status = "success"
            /\ tool_outputs'[Len(tool_outputs')].output.source = "cache"
            /\ tool_outputs'[Len(tool_outputs')].output.delivery_details = _cache[key]
            /\ dispatch_pc' = "loop"
            /\ UNCHANGED <<client_vars, fetch_vars, _cache, _timestamps, _ttls>>]_vars

\* C12 witness: in one batch a call was answered from the upstream and the
\* next call for the same id from the cache, with the same details and no
\* fetch in progress.
C12_Witness ==
  /\ dispatch_pc = "loop"
  /\ Len(tool_outputs) = 2
  /\ provenance[1].fetched.kind = "delivery"
  /\ tool_outputs[2].output.source = "cache"
  /\ tool_outputs[2].output.delivery_details = tool_outputs[1].output.delivery_details
  /\ _hits = 1
  /\ pc[1] = "idle"

\* A step in which the loop of process_webhook takes up the entry call'.
CallStep == dispatch_pc = "loop" /\ dispatch_pc' # "done"
\* The entry's arguments are, or parse to, a dict whose tracking_id is a str.
HasTextId(entry) ==
  /\ parse_arguments(entry.function.arguments).t = "dict"
  /\ get_tracking_id(parse_arguments(entry.function.arguments)).t = "str"
RawIdOf(entry) == get_tracking_id(parse_arguments(entry.function.arguments)).chars
NormalLength(chars) == Len(upper(re_sub(chars)))
\* The id is empty or normalizes to fewer than 6 or more than 32 characters.
InvalidId(chars) ==
  chars = <<>> \/ NormalLength(chars) < 6 \/ NormalLength(chars) > 32

\* C13: taking up a get_delivery_status call whose tracking id is empty or
\* normalizes to fewer than 6 or more than 32 characters appends exactly one
\* output for it, with status "error" and null delivery_details; the cache
\* with its hit and miss counters, the client and its requests are untouched,
\* and the loop goes on.
C13_InvalidIdIsAnError ==
  [][(CallStep /\ IsStatusCall(call') /\ HasTextId(call') /\ InvalidId(RawIdOf(call'))) =>
       /\ Len(tool_outputs') = Len(tool_outputs) + 1
       /\ SubSeq(tool_outputs', 1, Len(tool_outputs)) = tool_outputs
       /\ tool_outputs'[Len(tool_outputs')].toolCallId = call'.id
       /\ tool_outputs'[Len(tool_outputs')].output.status = "error"
       /\ tool_outputs'[Len(tool_outputs')].output.delivery_details = None
       /\ dispatch_pc' = "loop"
       /\ UNCHANGED <<cache_vars, client_vars, fetch_vars, stored>>]_vars

\* C13 witness: a batch whose first call had an id too long to be valid got
\* an error output for it and then answered its next call from the upstream.
C13_Witness ==
  /\ Len(tool_outputs) = 2
  /\ tool_outputs[1].toolCallId = "c11"
  /\ tool_outputs[1].output.status = "error"
  /\ tool_outputs[2].output.status = "success"
  /\ _hits = 0
  /\ _misses = 1

\* A step in which the dispatcher takes what fetch_delivery returned or raised
\* and appends the call's output.
OutcomeStep == dispatch_pc = "fetching" /\ dispatch_pc' = "loop"
LastOutput == tool_outputs'[Len(tool_outputs')]
\* The three dicts of the cache.
Entries == <<_cache, _timestamps, _ttls>>

C15_RaiseBecomesUnavailable ==
  [][(dispatch_pc = "fetching" /\ pc[1] = "raised" /\ dispatch_pc' # "fetching") =>
       /\ dispatch_pc' = "loop"
       /\ Len(tool_outputs') = Len(tool_outputs) + 1
       /\ SubSeq(tool_outputs', 1, Len(tool_outputs)) = tool_outputs
       /\ LastOutput.toolCallId = current_call.toolCallId
       /\ LastOutput.output.status = "unavailable"
       /\ LastOutput.output.source = "fallback"
       /\ LastOutput.output.delivery_details = None
       /\ UNCHANGED <<cache_vars, stored>>]_vars

\* C15 witness: both calls of a batch were answered unavailable, the first
\* after its retries ran out and the second when the breaker it had opened
\* refused its last attempt; the cache is empty.
C15_Witness ==
  /\ dispatch_pc = "loop"
  /\ Len(tool_outputs) = 2
  /\ \A i \in 1..2 : tool_outputs[i].output.status = "unavailable"
  /\ \A i \in 1..2 : tool_outputs[i].output.source = "fallback"
  /\ _circuit_state = OPEN
  /\ _failure_count = _failure_threshold
  /\ DOMAIN _cache = {}

\* C16: when fetch_delivery returned a record, the dispatcher emits the
\* success output built from it and stores, under the call's normalized id,
\* exactly that output's delivery_details (which has no customer_phone, so it
\* is not the record), stamped with the present time and the default TTL; a
\* lookup of that id at any time up to the TTL later returns that payload.
C16_StoresBuiltDetails ==
  [][(OutcomeStep /\ fetch_result[1].kind = "delivery") =>
       LET key == current_call.normalized_id
           payload == LastOutput.output.delivery_details
       IN /\ LastOutput.output.status = "success"
          /\ LastOutput.toolCallId = current_call.toolCallId
          /\ payload = DetailsOf(fetch_result[1].delivery)
          /\ payload # fetch_result[1].delivery
          /\ key \in DOMAIN _cache'
          /\ _cache'[key] = payload
          /\ \A k \in DOMAIN _cache \ {key} : k \in DOMAIN _cache' /\ _cache'[k] = _cache[k]
          /\ \A d \in 0..default_ttl_seconds : cache_get(Cache', key, now + d).value = payload]_vars

\* C16 witness: the only call so far missed the cache, was answered with a
\* record, and the cache now holds that output's details under TRK123.
C16_Witness ==
  /\ Len(tool_outputs) = 1
  /\ tool_outputs[1].output.status = "success"
  /\ DOMAIN _cache = {K1}
  /\ _cache[K1] = tool_outputs[1].output.delivery_details
  /\ _timestamps[K1] = now
  /\ _misses = 1

IdsOf(outputs) == [i \in DOMAIN outputs |-> outputs[i].toolCallId]

Speaking == {i \in DOMAIN tool_outputs : tool_outputs[i].output.message.fmt # ""}
NthSpeaking(k) == CHOOSE i \in Speaking : Cardinality({j \in Speaking : j <= i}) = k

\* C18: the messages of a returned batch are, in the order of the outputs,
\* one entry with role "assistant" for each output whose message is not
\* empty, its content being that message.
C18_MessagesFollowOutputs ==
  dispatch_pc = "done" =>
    /\ Len(response.messages) = Cardinality(Speaking)
    /\ \A k \in 1..Len(response.messages) :
         /\ response.messages[k].role = "assistant"
         /\ response.messages[k].content = tool_outputs[NthSpeaking(k)].output.message

\* C18 witness: a returned batch with an error output followed by a
\* not_found output, and their two different messages in that order.
C18_Witness ==
  /\ dispatch_pc = "done"
  /\ Len(response.messages) = 2
  /\ tool_outputs[1].output.status = "error"
  /\ tool_outputs[2].output.status = "not_found"
  /\ response.messages[1].content = tool_outputs[1].output.message
  /\ response.messages[1].content # response.messages[2].content

\* function.arguments is a str that json.loads rejects.
MalformedArguments(entry) ==
  entry.function.arguments.t = "str" /\ entry.function.arguments.parses_to = Invalid
\* The output of a get_delivery_status call whose arguments are the empty dict.
EmptyArgumentsOutput ==
  build_error_response(normalize_tracking_id(get_tracking_id(Dict(Absent))).message)

\* C19: taking up a get_delivery_status call whose arguments are a string that
\* is not valid JSON appends exactly the output that empty arguments give, an
\* "error" output saying the tracking id is empty, under that call's id;
\* process_webhook does not raise, touches neither cache nor client, and the
\* loop goes on.
C19_MalformedJsonIsEmpty ==
  [][(CallStep /\ IsStatusCall(call') /\ MalformedArguments(call')) =>
       /\ dispatch_pc' = "loop"
       /\ tool_outputs' = Append(tool_outputs,
                                 [toolCallId |-> call'.id, output |-> EmptyArgumentsOutput])
       /\ LastOutput.output.status = "error"
       /\ LastOutput.output.message.fmt = "Tracking ID cannot be empty"
       /\ UNCHANGED <<cache_vars, client_vars, fetch_vars, stored>>]_vars

\* C19 witness: a batch got an error output for the call c4, whose arguments
\* are malformed JSON, and then answered the call c2, whose arguments are
\* JSON text of an object.
C19_Witness ==
  /\ Len(tool_outputs) = 2
  /\ tool_outputs[1].toolCallId = "c4"
  /\ tool_outputs[1].output.status = "error"
  /\ tool_outputs[2].toolCallId = "c2"
  /\ tool_outputs[2].output.status \in {"success", "not_found"}

\* The request gives id as the value its query matches on: bound to the
\* parameter the query names, or written into the query in its place.
Carries(req, id) ==
  LET on == req.params.query.matches_on IN
  \/ /\ on.kind = "parameter"
     /\ on.name \in DOMAIN req.params
     /\ req.params[on.name] = id
  \/ /\ on.kind = "literal"
     /\ on.value = id

\* C20: every request sent by fetch_delivery(id) carries id as the value the
\* query matches on, and a record the fetch returns has that tracking number.
C20_RequestCarriesId ==
  \A p \in Procs :
    /\ request[p] # None => Carries(request[p], tracking_number[p])
    /\ (pc[p] = "returned" /\ fetch_result[p].kind = "delivery") =>
         fetch_result[p].delivery.tracking_number = tracking_number[p]

\* --------------------------------------------------------------------- C21
\* The entry is a well-formed function tool call of the documented shape.
WellFormed(entry) ==
  /\ entry.type = "function"
  /\ entry.id # ""
  /\ entry.function.name \in STRING
  /\ entry.function.arguments.t \in {"dict", "str"}
HasToolCalls(b) ==
  /\ b.t = "dict"
  /\ b.message.t = "dict"
  /\ b.message.toolCalls.t = "list"
  /\ b.message.toolCalls.items # <<>>
\* {message: {toolCalls: [...]}} with at least one entry, each of them well formed
Documented(b) ==
  /\ HasToolCalls(b)
  /\ b.message.tool_calls.t = "absent"
  /\ \A i \in DOMAIN b.message.toolCalls.items : WellFormed(b.message.toolCalls.items[i])
RequestLevelFailure == status_code \in {400, 422}

\* C21: a posted body of the documented shape, whose message.toolCalls holds
\* at least one well-formed function tool call, is not answered with a
\* request-level failure and the list handed to the loop of process_webhook
\* is its message.toolCalls; a body answered with a request-level failure
\* is not JSON or holds no tool call.
C21_DocumentedBodyIsDispatched ==
  body # None =>
    /\ Documented(body) =>
         (~RequestLevelFailure /\ iterated = body.message.toolCalls.items)
    /\ RequestLevelFailure => ~HasToolCalls(body)

\* --------------------------------------------------------------------- C22
\* C22: whenever normalize_tracking_id returns for an input, applying it to
\* the value returned returns that same value.
C22_NormalizeIsIdempotent ==
  (first_result # None /\ first_result.outcome = "return") => second_result = first_result

\* An input with separators and lower-case letters was normalized, and the
\* result normalized again.
C22_Witness ==
  /\ first_result # None
  /\ first_result.outcome = "return"
  /\ raw_input.chars # first_result.value
  /\ second_result # None
  /\ \E i \in DOMAIN raw_input.chars : raw_input.chars[i] = "-"

\* --------------------------------------------------------------------- C23
\* The number of characters of [A-Za-z0-9] in the text.
AlnumCount(chars) == Cardinality({i \in DOMAIN chars : IsAlnum(chars[i])})
\* The i-th such character of the text.
NthAlnum(chars, i) ==
  chars[CHOOSE j \in DOMAIN chars :
          IsAlnum(chars[j]) /\ Cardinality({k \in 1..j : IsAlnum(chars[k])}) = i]
\* b is a, in upper case when a is a letter.
UpperCaseOf(a, b) ==
  \/ (a = b /\ a \in Range(Uppers) \cup Range(Digits))
  \/ \E i \in DOMAIN Lowers : a = Lowers[i] /\ b = Uppers[i]
IsEmptyInput(raw) == raw = None \/ raw = Str(<<>>)
ErrorWith(result, fmt) ==
  /\ result.outcome = "raise"
  /\ result.exc = "ValueError"
  /\ result.message.fmt = fmt

\* C23: normalize_tracking_id returns exactly when the input, with the
\* characters outside A-Z, a-z, 0-9 removed, has 6 to 32 characters, and then
\* returns those characters in upper case; it raises the 'empty' error for
\* empty or absent input, 'too short' below 6 and 'too long' above 32.
C23_NormalizeByCleanedLength ==
  first_result # None =>
    IF IsEmptyInput(raw_input)
    THEN ErrorWith(first_result, "Tracking ID cannot be empty")
    ELSE LET n == AlnumCount(raw_input.chars) IN
           /\ n < 6 =>
                ErrorWith(first_result,
                  "Tracking ID too short after normalization: '{}' (minimum 6 characters)")
           /\ n > 32 =>
                ErrorWith(first_result,
                  "Tracking ID too long after normalization: '{}' (maximum 32 characters)")
           /\ n \in 6..32 =>
                /\ first_result.outcome = "return"
                /\ Len(first_result.value) = n
                /\ \A i \in 1..n :
                     UpperCaseOf(NthAlnum(raw_input.chars, i), first_result.value[i])

\* A 32-character identifier written in lower case with separators was accepted.
C23_Witness ==
  /\ first_result # None
  /\ first_result.outcome = "return"
  /\ Len(first_result.value) = 32
  /\ Len(raw_input.chars) > 32
  /\ \E i \in DOMAIN raw_input.chars : raw_input.chars[i] \in Range(Lowers)

\* ----------------------------------------------------------- C24 to C28
\* A step that is one call of DeliveryCache.get, of DeliveryCache.set.
GetStep == last_call'.op = "get" /\ gets' = gets + 1
SetStep == last_call'.op = "set" /\ now' = now
\* The time to live a set call asked for.
RequestedTtl(ttl_seconds) ==
  IF ttl_seconds = None THEN default_ttl_seconds ELSE ttl_seconds.n

\* C24: the first get(K) after set(K, v, ttl), nothing else having been
\* called on the cache in between, returns v and counts a hit while
\* now - stored_at <= ttl, and otherwise returns None, counts a miss and
\* removes the entry.
C24_FreshUntilTtl ==
  [][(last_call.op = "set" /\ GetStep /\ last_call'.key = last_call.key) =>
       LET K == last_call.key
           stored_at == _timestamps[K]
       IN IF now - stored_at <= RequestedTtl(last_call.ttl_seconds)
          THEN last_call'.value = last_call.value /\ _hits' = _hits + 1 /\ _misses' = _misses
          ELSE /\ last_call'.value = None
               /\ _misses' = _misses + 1
               /\ _hits' = _hits
               /\ K \notin DOMAIN _cache']_vars

\* C25: when only sets of distinct keys were made on a cache that was empty,
\* more of them than max_size, the keys present are exactly the last max_size
\* of them; and each set of a new key into a full cache removes one entry,
\* one whose stored_at is the smallest, and no other.
C25_LastKeysSurvive ==
  /\ [](LET N == Len(inserted.keys) IN
          (inserted.valid /\ N > max_size) =>
             DOMAIN _cache = {inserted.keys[i] : i \in (N - max_size + 1)..N})
  /\ [][(SetStep /\ Cardinality(DOMAIN _cache) = max_size
                 /\ last_call'.key \notin DOMAIN _cache) =>
          \E victim \in DOMAIN _cache :
            /\ \A k \in DOMAIN _cache : _timestamps[victim] <= _timestamps[k]
            /\ DOMAIN _cache' = (DOMAIN _cache \ {victim}) \cup {last_call'.key}]_vars

\* Three distinct keys were set into an empty cache of capacity 2, the clock
\* having moved between the sets.
C25_Witness ==
  /\ inserted.valid
  /\ Len(inserted.keys) = 3
  /\ max_size = 2
  /\ \E k \in DOMAIN _timestamps : _timestamps[k] < now

\* C26: the cache never holds more than max_size entries.
C26_SizeBounded == Cardinality(DOMAIN _cache) <= max_size

\* A set was made on a cache that was full, after calls other than sets of
\* new keys.
C26_Witness ==
  /\ last_call.op = "set"
  /\ ~inserted.valid
  /\ Cardinality(DOMAIN _cache) = max_size
  /\ max_size > 1
  /\ gets > 0

\* C27: in get_stats, hits + misses is the number of get calls since
\* construction or the last clear, size is the number of stored entries and
\* hit_rate is hits / (hits + misses), 0 when no get was made; after clear
\* hits, misses and size are 0.
C27_StatsCountLookups ==
  LET stats == get_stats(Cache) IN
    /\ stats.hits + stats.misses = gets
    /\ stats.size = Len(key_order)
    /\ stats.size = Cardinality(DOMAIN _timestamps)
    /\ IF gets = 0 THEN stats.hit_rate.num = 0
       ELSE stats.hit_rate.num * gets = stats.hits * stats.hit_rate.den
    /\ last_call.op = "clear" => (stats.hits = 0 /\ stats.misses = 0 /\ stats.size = 0)

\* get_stats was called after a hit and a miss on a cache holding entries.
C27_Witness ==
  /\ last_call.op = "get_stats"
  /\ _hits = 1
  /\ _misses = 1
  /\ Cardinality(DOMAIN _cache) = 2

\* C28: with the calls of all handlers on the one cache in any order, each
\* call running to its end, every get adds one to exactly one of hits and
\* misses, returns None or the value stored under its key at that moment,
\* and finds the three dicts with the same keys; a value enters the cache
\* under a key by a set on that key only.
C28_InterleavedCallsAreSafe ==
  /\ [](DOMAIN _cache = DOMAIN _timestamps /\ DOMAIN _cache = DOMAIN _ttls)
  /\ [][GetStep =>
          LET key == last_call'.key IN
            IF last_call'.value = None
            THEN _misses' = _misses + 1 /\ _hits' = _hits
            ELSE /\ _hits' = _hits + 1 /\ _misses' = _misses
                 /\ key \in DOMAIN _cache
                 /\ last_call'.value = _cache[key]]_vars
  /\ [][\A k \in DOMAIN _cache' :
          \/ (k \in DOMAIN _cache /\ _cache'[k] = _cache[k])
          \/ (SetStep /\ last_call'.key = k /\ _cache'[k] = last_call'.value)]_vars

\* A get missed on a key that had been set: two later sets of other keys
\* had pushed its entry out.
C28_Witness ==
  /\ inserted.valid
  /\ Len(inserted.keys) > max_size
  /\ last_call.op = "get"
  /\ last_call.key = inserted.keys[1]
  /\ last_call.value = None
  /\ _misses > 0
  /\ _hits > 0

\* --------------------------------------------------------------------- C29
\* A step in which an attempt of caller p ends in the except clause of
\* fetch_delivery.
FailureStep(p) == failures_recorded'[p] = failures_recorded[p] + 1

\* C29: with the fetches of several callers interleaved, every failure
\* recorded adds exactly one to the failure counter, stamps the last-failure
\* time and leaves the breaker OPEN when the counter has reached the
\* threshold; the counter changes otherwise only by being set to 0.
C29_NoFailureLost ==
  [][/\ \A p \in Procs :
          FailureStep(p) =>
            /\ _failure_count' = _failure_count + 1
            /\ _last_failure_time' = now
            /\ (_failure_count' >= _failure_threshold => _circuit_state' = OPEN)
     /\ (_failure_count' # _failure_count) =>
          ((\E p \in Procs : FailureStep(p)) \/ _failure_count' = 0)]_vars

\* Two fetches in progress have recorded failures, five between them, and
\* the breaker is OPEN.
C29_Witness ==
  /\ failures_recorded[1] >= 1
  /\ failures_recorded[2] >= 1
  /\ failures_recorded[1] + failures_recorded[2] = _failure_threshold
  /\ _failure_count = _failure_threshold
  /\ _circuit_state = OPEN

\* --------------------------------------------------------------------- C30
\* The response holds a row whose status is not a DeliveryStatus.
HasBadStatus(resp) ==
  /\ resp # None
  /\ resp.kind = "rows"
  /\ resp.result # <<>>
  /\ resp.result[1].status \notin DeliveryStatus

HitStep == GetStep /\ last_call'.value # None

\* C31: a get that hits leaves the entry's stored_at and TTL, and those of
\* every other entry, as they were, so the entry a set at capacity would
\* evict is the same before and after the hit; a stored_at changes only by a
\* set on its key, which makes it the time of that set.
C31_HitKeepsEvictionOrder ==
  /\ [][HitStep =>
          /\ UNCHANGED <<_cache, _timestamps, _ttls, key_order>>
          /\ oldest_key(Cache') = oldest_key(Cache)]_vars
  /\ [][\A k \in DOMAIN _timestamps' :
          \/ (k \in DOMAIN _timestamps /\ _timestamps'[k] = _timestamps[k])
          \/ (SetStep /\ last_call'.key = k /\ _timestamps'[k] = now)]_vars

\* A get hit the older of the two entries of a full cache, at a time later
\* than the set of either.
C31_Witness ==
  /\ last_call.op = "get"
  /\ last_call.value # None
  /\ max_size = 2
  /\ Cardinality(DOMAIN _cache) = 2
  /\ oldest_key(Cache) = last_call.key
  /\ \A k \in DOMAIN _timestamps :
       /\ _timestamps[k] < now
       /\ (k # last_call.key => _timestamps[k] > _timestamps[last_call.key])

\* --------------------------------------------------------------------- C32
\* C32: in every state, with the fetches of several callers interleaved,
\* the stored circuit state is OPEN or HALF_OPEN only if the failure counter
\* is at least the threshold, and CLOSED only if the counter is below it.
C32_StateFollowsCounter ==
  /\ _circuit_state \in {OPEN, HALF_OPEN} => _failure_count >= _failure_threshold
  /\ _circuit_state = CLOSED => _failure_count < _failure_threshold

\* The breaker is HALF_OPEN with the threshold of failures counted, each
\* caller having recorded some of them, and a request is in flight.
C32_Witness ==
  /\ _circuit_state = HALF_OPEN
  /\ _failure_count >= _failure_threshold
  /\ \A p \in Procs : failures_recorded[p] >= 1
  /\ \E p \in Procs : pc[p] = "inflight"

\* --------------------------------------------------------------------- C33
\* Caller p's request in flight is a probe: it is the first attempt of a
\* fetch that read HALF_OPEN on entry.
Probing(p) ==
  /\ pc[p] = "inflight"
  /\ attempt_number[p] = 1
  /\ entry_state[p] = HALF_OPEN

\* C33: while the breaker is HALF_OPEN at most one probe is in flight; a
\* fetch that arrives while a probe is unresolved is not sent upstream.
C33_OneProbeInFlight ==
  _circuit_state = HALF_OPEN => Cardinality({p \in Procs : Probing(p)}) <= 1

\* --------------------------------------------------------------------- C34
\* The upstream answers every request of the caller's fetch successfully.
Healthy == \A i \in 1..stop_after_attempt : upstream[1][i] = "ok"
\* More than the reset timeout has passed since the last recorded failure.
TimedOut == now - _last_failure_time > _reset_timeout

\* C34: when fetches keep being requested, the upstream answers successfully
\* from some point on and time runs on past the reset timeout after the
\* last failure, a breaker that is OPEN comes to be CLOSED with failure
\* count 0.
C34_OpenBreakerRecovers ==
  (/\ []<><<\E id \in Ids : Call(id)>>_vars
   /\ <>[]Healthy
   /\ []<>TimedOut)
  => ((_circuit_state = OPEN) ~> (_circuit_state = CLOSED /\ _failure_count = 0))

\* A fetch that read HALF_OPEN on entry returned from its first request,
\* more than the reset timeout after the failure that had opened the
\* breaker, and the breaker is CLOSED with count 0.
C34_Witness ==
  /\ pc[1] = "returned"
  /\ entry_state[1] = HALF_OPEN
  /\ transport_calls[1] = 1
  /\ failed_run > 0 \/ _last_failure_time > 0
  /\ TimedOut
  /\ _circuit_state = CLOSED
  /\ _failure_count = 0

\* --------------------------------------------------------------------- C35
\* C35: a call of get_dependency_status leaves the stored circuit state, the
\* failure counter and the last-failure time as they were.
C35_StatusIsPureRead ==
  [][get_dependency_status =>
       UNCHANGED <<_circuit_state, _failure_count, _last_failure_time>>]_vars

\* C35 amended: a call of get_dependency_status leaves the failure counter
\* and the last-failure time as they were and changes the stored circuit
\* state in one case only, from OPEN to HALF_OPEN when more than the reset
\* timeout has passed since the last failure; it returns the circuit state
\* as stored after the call and the failure count.
C35_StatusReadsLazily ==
  [][get_dependency_status =>
       /\ UNCHANGED <<_failure_count, _last_failure_time>>
       /\ \/ _circuit_state' = _circuit_state
          \/ /\ _circuit_state = OPEN
             /\ _circuit_state' = HALF_OPEN
             /\ now - _last_failure_time > _reset_timeout
       /\ (_circuit_state = OPEN /\ now - _last_failure_time <= _reset_timeout) =>
            _circuit_state' = OPEN
       /\ dependency_status(Breaker, now).status =
            [circuit_breaker |-> _circuit_state', failure_count |-> _failure_count]]_vars

\* The breaker that a fetch had left OPEN is HALF_OPEN, no fetch having been
\* called since: get_dependency_status was called after the reset timeout.
C35_Witness ==
  /\ _circuit_state = HALF_OPEN
  /\ pc[1] = "raised"
  /\ entry_state[1] = CLOSED
  /\ _failure_count = _failure_threshold
  /\ now - _last_failure_time > _reset_timeout

\* --------------------------------------------------------------------- C36
\* C36: every cache entry holds, under key K, details whose tracking_number
\* is K; and a call answered "success" is answered with details whose
\* tracking_number is the call's normalized id.
C36_AnswerIsForTheIdAsked ==
  /\ [](\A K \in DOMAIN _cache : _cache[K].tracking_number = K)
  /\ [][(OutcomeStep /\ LastOutput.output.status = "success") =>
          LastOutput.output.delivery_details.tracking_number = current_call.normalized_id]_vars

\* --------------------------------------------------------------------- C37
\* The document with its customerPhone blanked.
Erased(row) == [row EXCEPT !.customerPhone = ""]
\* What outputs and cache entries may hold: the details and the message made
\* of a document whose phone is blanked.
PhoneFreeDetails ==
  {build_success_response(Delivery(Erased(r))).delivery_details : r \in GoodRows}

PhoneFreeMessages ==
  {build_success_response(Delivery(Erased(r))).message : r \in GoodRows}

\* C37: the output and the cache entry made from an upstream document are
\* those made from the same document with its customerPhone blanked, so two
\* documents that differ in customerPhone only give the same output and the
\* same cache entry; no output, cache entry or assistant message has a field
\* for the phone or holds anything but such details and messages.
C37_PhoneNeverLeaves ==
  /\ [][(OutcomeStep /\ LastOutput.output.status = "success") =>
          LET built == build_success_response(Delivery(Erased(received.result[1]))) IN
            /\ LastOutput.output = built
            /\ _cache'[current_call.normalized_id] = built.delivery_details
            /\ \A K \in DOMAIN _cache' \ {current_call.normalized_id} :
                 K \in DOMAIN _cache /\ _cache'[K] = _cache[K]]_vars
  /\ [](\A K \in DOMAIN _cache : _cache[K] \in PhoneFreeDetails)
  /\ [](\A i \in DOMAIN tool_outputs :
          LET output == tool_outputs[i].output IN
            /\ output.delivery_details # None => output.delivery_details \in PhoneFreeDetails
            /\ output.status = "success" =>
                 IF "source" \in DOMAIN output
                 THEN DOMAIN output.message.args = {"age_seconds"}
                 ELSE output.message \in PhoneFreeMessages)
  /\ [](response # None =>
          \A i \in DOMAIN response.messages :
            \E j \in DOMAIN tool_outputs :
              response.messages[i].content = tool_outputs[j].output.message)

\* A document whose customerPhone is the second number was answered with
\* "success" and cached, and the batch went on to answer a second call for
\* the shipment from the cache.
C37_Witness ==
  /\ received # None
  /\ received.kind = "rows"
  /\ received.result # <<>>
  /\ received.result[1].customerPhone = "777"
  /\ Len(tool_outputs) = 2
  /\ tool_outputs[1].output.status = "success"
  /\ tool_outputs[2].output.status = "success"
  /\ "source" \in DOMAIN tool_outputs[2].output
  /\ _cache # <<>>

\* --------------------------------------------------------------------- C38
\* C38: a set on a key that is present in a cache holding max_size entries
\* replaces that key's value, timestamp and TTL and leaves every other entry
\* in place: the keys held are the same afterwards.
C38_OverwriteEvictsNothing ==
  [][(SetStep /\ Cardinality(DOMAIN _cache) = max_size /\ last_call'.key \in DOMAIN _cache) =>
       LET K == last_call'.key IN
         /\ DOMAIN _cache' = DOMAIN _cache
         /\ Cardinality(DOMAIN _cache') = max_size
         /\ _cache'[K] = last_call'.value
         /\ _timestamps'[K] = now
         /\ \A k \in DOMAIN _cache \ {K} :
              /\ _cache'[k] = _cache[k]
              /\ _timestamps'[k] = _timestamps[k]
              /\ _ttls'[k] = _ttls[k]]_vars

\* --------------------------------------------------------------------- C39
\* C39: a set given a TTL stores the entry with that TTL, whatever its value,
\* 0 included; and the first get of the key after set(K, v, ttl=0), made when
\* time has passed since the set, finds the entry expired.
C39_TtlOverrideHonoured ==
  /\ [][(SetStep /\ last_call'.ttl_seconds # None) =>
          _ttls'[last_call'.key] = last_call'.ttl_seconds.n]_vars
  /\ [][(/\ last_call.op = "set"
         /\ last_call.ttl_seconds = IntValue(0)
         /\ GetStep
         /\ last_call'.key = last_call.key
         /\ now > _timestamps[last_call.key]) =>
          /\ last_call'.value = None
          /\ last_call'.key \notin DOMAIN _cache']_vars

\* --------------------------------------------------------------------- C40
\* C40: the output of a call answered from the cache gives, as
\* cache_age_seconds, the time between the set that stored the entry and
\* the lookup.
C40_AgeIsTimeSinceStored ==
  [][(LookupStep /\ _hits' = _hits + 1) =>
       LET key == NormalizedIdOf(call') IN
         LastOutput.output.cache_age_seconds = now - _timestamps[key]]_vars

====
